---- MODULE Spec2Model ----
(***************************************************************************)
(* State-machine model of the construction-notice alert pipeline:          *)
(*   - the WebSocket connection registry, its connection handlers and the  *)
(*     periodic scan (backend/app/routers/websocket.py), specification     *)
(*     Spec;                                                               *)
(*   - the notice store's save path and its concurrent readers             *)
(*     (backend/app/services/notice_contruction.py), specification         *)
(*     SpecStore;                                                          *)
(*   - the crawl and the refresh, specification SpecUpdate; the date       *)
(*     normalizer, the favorite geometry extractor and the proximity       *)
(*     matcher as pure functions, specifications SpecDates, SpecCoords     *)
(*     and SpecMatch;                                                      *)
(*   - the receive loop (SpecFrames), concurrent handshakes of three       *)
(*     clients (SpecHandshakes) and the scan with the history of failed    *)
(*     pushes (SpecCycles).                                                *)
(* The server is a single asyncio event loop: code between two awaits runs *)
(* atomically, and every await is a point where other coroutines may run.  *)
(* Each action below is the code from one await to the next.               *)
(***************************************************************************)
EXTENDS Integers, Sequences, FiniteSets, TLC

\* ---------------------------------------------------------------- bounds
NumConns == 2
NumHandshakes == 3
MaxScans == 2
MaxBatch == 2
MaxSaves == 2
MaxPageNo == 2
MaxPad == 1

\* ------------------------------------------------------ program constants
PolicyViolation == 1008
InternalError == 1011
NormalClosure == 1000

\* ------------------------------------------------------------------ sets
Conns == 1..NumConns
Handshakes == 1..NumHandshakes
NoConn == 0
Users == {"u1", "u2"}
ExtIds == Users \cup {"ghost"}
NoId == "none"
TextFrames == {"ping", "json", "array", "garbage"}
MatchOutcomes == {"raise", "empty", "alerts"}
NoUrl == "null"
Urls == {NoUrl, "a", "b"}
Names == {"", "n1"}
NoticeData == [url : Urls, name : Names]
NoLimit == -1
PageLimits == {NoLimit} \cup (0..MaxPageNo)
RowsPerPage == {0, 1}

VARIABLES
    active_connections, \* the registry: sequence of [id, ws], in insertion order
    pc,                 \* per connection: where its handler is suspended
    ext,                \* per connection: the external_id of its query string
    prior,              \* per running handler: the connection its handshake found registered
    wsOpen,             \* per connection: the transport is open (accepted, not closed)
    closeCalls,         \* per connection: close codes the server called close() with
    acked,              \* per connection: number of "connected" frames sent
    db,                 \* per connection: the handler's database session
    fault,              \* per connection: the handler ended in its except Exception branch
    spc,                \* the scan's position
    scans,              \* number of scans started
    online_users,       \* the scan's snapshot: sequence of external ids
    idx,                \* the scan's position in online_users (next to process)
    outcome,            \* per external id: the matcher's outcome in the current scan
    matchCount,         \* per external id: matcher calls in the current scan
    pushCount,          \* per external id: push calls in the current scan
    pushId,             \* the external id of the current / last push
    pushWs,             \* the websocket the current push looked up
    pushSends,          \* send attempts of the current / last push
    pushResult,         \* return value of the last push: "True", "False" ("none" while running)
    scanDb,             \* the scan's database session
    notices,            \* the committed rows of the construction-notice table, in insertion order
    session_new,        \* rows the saving session has added and not yet committed
    spc_save,           \* position of save_construction_notices
    clear_existing,     \* the running save's clear_existing argument
    todo,               \* number of incoming notices the running save has yet to process
    incoming,           \* number of notices passed to the running save
    saved_count,        \* the running save's counter / return value
    notices_before,     \* the committed rows when the running save was called
    saves,              \* number of save calls so far
    reader_saw,         \* what a concurrent reader's last query returned during the save
    update_call,        \* a call of update_construction_notices: upc (its position),
                        \* upd_clear (its clear_existing argument), upd_result (how it
                        \* ended: "success", "error", "raised"; "none" while running),
                        \* scraped_count and upd_saved (the counts of its result)
    scrape_call,        \* a call of scrape_construction_notices: cpc (its position),
                        \* max_pages (its argument), page_numbers (the page numbers in
                        \* the initial page's pagination links), total_pages, page_num
                        \* (the loop variable), soup (the page parsed last: 0 the
                        \* initial page, k the k-th response), requests (the POSTs
                        \* submitted: sequence of [page, form]), all_notices (number of
                        \* records collected)
    date_call,          \* a call of parse_roc_date_range: date_range_str (its argument, a
                        \* sequence of characters), dpc ("called" or "returned"),
                        \* start_date and end_date (the pair it returns)
    coords_call,        \* a call of get_favorite_coordinates: favorite (its argument),
                        \* gpc ("called" or "returned"), coordinates (the list it returns)
    match_call,         \* a call of check_construction_near_favorites: user_id (its
                        \* argument), favorite_rows and notice_rows (the tables its
                        \* session sees), mpc ("called", "returned" or "raised"),
                        \* alerts (the list it returns)
    failed_ids,         \* history: the identifiers whose push failed since the last
                        \* scan started (kept in specification SpecCycles only)
    data,               \* per connection: the frame its receive loop read last
    replies             \* per connection: send_json calls made in reply to that frame

regVars == <<active_connections>>
connVars == <<pc, ext, prior, wsOpen, closeCalls, acked, db, fault>>
storeVars == <<notices, session_new, spc_save, clear_existing, todo, incoming, saved_count,
               notices_before, saves, reader_saw>>
scanVars == <<spc, scans, online_users, idx, outcome, matchCount, pushCount,
              pushId, pushWs, pushSends, pushResult, scanDb>>

updVars == <<update_call, scrape_call>>
pureVars == <<date_call, coords_call, match_call>>
frameVars == <<data, replies>>
histVars == <<failed_ids>>

\* ------------------------------------------------- the registry (a dict)
Has(reg, x) == \E i \in 1..Len(reg) : reg[i].id = x

Get(reg, x) ==
    IF Has(reg, x) THEN reg[CHOOSE i \in 1..Len(reg) : reg[i].id = x].ws ELSE NoConn

\* active_connections[x] = c: an existing key keeps its position
Put(reg, x, c) ==
    IF Has(reg, x)
    THEN [i \in 1..Len(reg) |-> IF reg[i].id = x THEN [id |-> x, ws |-> c] ELSE reg[i]]
    ELSE Append(reg, [id |-> x, ws |-> c])

\* del active_connections[x]
Del(reg, x) == SelectSeq(reg, LAMBDA e : e.id # x)

\* list(active_connections.keys())
Keys(reg) == [i \in 1..Len(reg) |-> reg[i].id]

EntriesFor(reg, x) == Cardinality({i \in 1..Len(reg) : reg[i].id = x})

\* ------------------------------------------------------ connection handler
\* faulty variant: the handshake skips the "if not user" rejection
UserExistsAlways(x) == TRUE

\* db.query(models.User).filter(external_id == x).first() is not None
UserExists(x) == x \in Users

\* faulty variant: the cleanup deletes the entry without comparing it to its own websocket
CleanupAnyEntry(reg, x, c) == Del(reg, x)

\* finally: if x in active_connections and active_connections[x] == websocket: del
Cleanup(reg, x, c) ==
    IF Has(reg, x) /\ Get(reg, x) = c THEN Del(reg, x) ELSE reg

\* await websocket.accept(): the connection opens; the handler resumes later.
\* Connections are interchangeable, so they are taken in order, and so are the
\* two known identifiers.
HAccept(c, x) ==
    /\ pc[c] = "idle"
    /\ IF c = 1 THEN TRUE ELSE pc[c - 1] # "idle"
    /\ x = "u2" => \E d \in DOMAIN ext : ext[d] = "u1"
    /\ pc' = [pc EXCEPT ![c] = "accepted"]
    /\ ext' = [ext EXCEPT ![c] = x]
    /\ wsOpen' = [wsOpen EXCEPT ![c] = TRUE]
    /\ UNCHANGED <<prior, closeCalls, acked, db, fault>>
    /\ UNCHANGED <<regVars, scanVars>>
    /\ UNCHANGED <<storeVars, updVars, pureVars, histVars, frameVars>>

\* Unknown identity: close(code=1008) and return. The session opened at line 145
\* is not closed on this path. If the close raises (the client is already gone)
\* the outer except closes with 1011 and closes the session.
HReject(c) ==
    /\ pc[c] = "accepted"
    /\ ~UserExists(ext[c])
    /\ pc' = [pc EXCEPT ![c] = "done"]
    /\ wsOpen' = [wsOpen EXCEPT ![c] = FALSE]
    /\ \/ /\ closeCalls' = [closeCalls EXCEPT ![c] = @ \cup {PolicyViolation}]
          /\ db' = [db EXCEPT ![c] = "open"]
          /\ UNCHANGED fault
       \/ /\ ~wsOpen[c]
          /\ closeCalls' = [closeCalls EXCEPT ![c] = @ \cup {PolicyViolation, InternalError}]
          /\ db' = [db EXCEPT ![c] = "closed"]
          /\ fault' = [fault EXCEPT ![c] = TRUE]
    /\ UNCHANGED <<ext, prior, acked>>
    /\ UNCHANGED <<regVars, scanVars>>
    /\ UNCHANGED <<storeVars, updVars, pureVars, histVars, frameVars>>

\* Known identity with a registered connection: await active_connections[x].close()
\* (any exception swallowed); the insert happens after the await.
HClosePrior(c) ==
    /\ pc[c] = "accepted"
    /\ UserExists(ext[c])
    /\ Has(active_connections, ext[c])
    /\ LET old == Get(active_connections, ext[c]) IN
         /\ prior' = [prior EXCEPT ![c] = old]
         /\ closeCalls' = [closeCalls EXCEPT ![old] = @ \cup {NormalClosure}]
         /\ wsOpen' = [wsOpen EXCEPT ![old] = FALSE]
    /\ pc' = [pc EXCEPT ![c] = "closing_prior"]
    /\ db' = [db EXCEPT ![c] = "open"]
    /\ UNCHANGED <<ext, acked, fault>>
    /\ UNCHANGED <<regVars, scanVars>>
    /\ UNCHANGED <<storeVars, updVars, pureVars, histVars, frameVars>>

\* active_connections[x] = websocket, then await websocket.send_json(connected):
\* directly after the lookup when no connection is registered, or after the
\* await on the prior connection's close.
HRegister(c) ==
    /\ \/ /\ pc[c] = "accepted"
          /\ UserExists(ext[c])
          /\ ~Has(active_connections, ext[c])
       \/ pc[c] = "closing_prior"
    /\ active_connections' = Put(active_connections, ext[c], c)
    /\ pc' = [pc EXCEPT ![c] = "acking"]
    /\ db' = [db EXCEPT ![c] = "open"]
    /\ UNCHANGED <<ext, prior, wsOpen, closeCalls, acked, fault>>
    /\ UNCHANGED scanVars
    /\ UNCHANGED <<storeVars, updVars, pureVars, histVars, frameVars>>

\* The acknowledgement is sent outside the inner try: when it raises, control
\* goes to the outer except (close 1011, db.close()) and the finally block that
\* removes the registry entry is never entered.
HAck(c) ==
    /\ pc[c] = "acking"
    /\ \/ /\ wsOpen[c]
          /\ acked' = [acked EXCEPT ![c] = @ + 1]
          /\ pc' = [pc EXCEPT ![c] = "receiving"]
          /\ UNCHANGED <<closeCalls, db, fault>>
       \/ /\ ~wsOpen[c]
          /\ closeCalls' = [closeCalls EXCEPT ![c] = @ \cup {InternalError}]
          /\ db' = [db EXCEPT ![c] = "closed"]
          /\ fault' = [fault EXCEPT ![c] = TRUE]
          /\ pc' = [pc EXCEPT ![c] = "done"]
          /\ UNCHANGED acked
    /\ prior' = [prior EXCEPT ![c] = IF pc'[c] = "done" THEN NoConn ELSE @]
    /\ UNCHANGED <<ext, wsOpen>>
    /\ UNCHANGED <<regVars, scanVars>>
    /\ UNCHANGED <<storeVars, updVars, pureVars, histVars, frameVars>>

\* receive_text() raises WebSocketDisconnect: finally removes the handler's own
\* entry and closes the session.
HDisconnect(c) ==
    /\ pc[c] = "receiving"
    /\ ~wsOpen[c]
    /\ active_connections' = Cleanup(active_connections, ext[c], c)
    /\ db' = [db EXCEPT ![c] = "closed"]
    /\ pc' = [pc EXCEPT ![c] = "done"]
    /\ prior' = [prior EXCEPT ![c] = NoConn]
    /\ UNCHANGED <<ext, wsOpen, closeCalls, acked, fault>>
    /\ UNCHANGED scanVars
    /\ data' = [data EXCEPT ![c] = "none"]
    /\ replies' = [replies EXCEPT ![c] = 0]
    /\ UNCHANGED <<storeVars, updVars, pureVars, histVars>>

\* receive_text() returns a text frame: a ping starts a pong send, anything that
\* does not decode to a ping is swallowed by the bare except.
ReceiveText(c, f) ==
    /\ pc[c] = "receiving"
    /\ wsOpen[c]
    /\ pc' = [pc EXCEPT ![c] = IF f = "ping" THEN "ponging" ELSE "receiving"]
    /\ UNCHANGED <<ext, prior, wsOpen, closeCalls, acked, db, fault>>
    /\ UNCHANGED <<regVars, scanVars>>
    /\ UNCHANGED <<storeVars, updVars, pureVars, histVars>>

HReceiveText(c, f) ==
    /\ ReceiveText(c, f)
    /\ UNCHANGED frameVars

\* The same step, with the frame kept in data.
FReceiveText(c, f) ==
    /\ ReceiveText(c, f)
    /\ data' = [data EXCEPT ![c] = f]
    /\ replies' = [replies EXCEPT ![c] = 0]

\* receive_text() on a binary frame raises (no "text" in the message), which is
\* not WebSocketDisconnect: finally cleans up, then the outer except closes
\* the connection with 1011.
ReceiveFault(c) ==
    /\ pc[c] = "receiving"
    /\ wsOpen[c]
    /\ active_connections' = Cleanup(active_connections, ext[c], c)
    /\ closeCalls' = [closeCalls EXCEPT ![c] = @ \cup {InternalError}]
    /\ wsOpen' = [wsOpen EXCEPT ![c] = FALSE]
    /\ db' = [db EXCEPT ![c] = "closed"]
    /\ fault' = [fault EXCEPT ![c] = TRUE]
    /\ pc' = [pc EXCEPT ![c] = "done"]
    /\ prior' = [prior EXCEPT ![c] = NoConn]
    /\ UNCHANGED <<ext, acked>>
    /\ UNCHANGED scanVars
    /\ UNCHANGED <<storeVars, updVars, pureVars, histVars>>

HReceiveFault(c) ==
    /\ ReceiveFault(c)
    /\ UNCHANGED frameVars

\* The same step, with the frame kept in data.
FReceiveFault(c) ==
    /\ ReceiveFault(c)
    /\ data' = [data EXCEPT ![c] = "binary"]
    /\ replies' = [replies EXCEPT ![c] = 0]

\* await websocket.send_json({"type": "pong"}) completes; a failure is swallowed.
Pong(c) ==
    /\ pc[c] = "ponging"
    /\ pc' = [pc EXCEPT ![c] = "receiving"]
    /\ UNCHANGED <<ext, prior, wsOpen, closeCalls, acked, db, fault>>
    /\ UNCHANGED <<regVars, scanVars>>
    /\ UNCHANGED <<storeVars, updVars, pureVars, histVars>>

HPong(c) ==
    /\ Pong(c)
    /\ UNCHANGED frameVars

\* The same step, with the send counted.
FPong(c) ==
    /\ Pong(c)
    /\ replies' = [replies EXCEPT ![c] = @ + 1]
    /\ UNCHANGED data

\* The client goes away (the transport drops) at any time after the accept.
ClientDisconnect(c) ==
    /\ pc[c] \notin {"idle", "done"}
    /\ wsOpen[c]
    /\ wsOpen' = [wsOpen EXCEPT ![c] = FALSE]
    /\ UNCHANGED <<pc, ext, prior, closeCalls, acked, db, fault>>
    /\ UNCHANGED <<regVars, scanVars>>
    /\ UNCHANGED <<storeVars, updVars, pureVars, histVars, frameVars>>

\* ---------------------------------------------------------- dispatcher
\* faulty variant: an absent entry is reported as a delivery
AbsentResultTrue == "True"

\* send_construction_alert: the value returned when no entry is registered
AbsentResult == "False"

\* faulty variant: a failed send leaves the entry registered
PushOnFailureKeep(reg, x) == reg

\* send_construction_alert, except branch: if x in active_connections: del
PushOnFailure(reg, x) == IF Has(reg, x) THEN Del(reg, x) ELSE reg

\* ------------------------------------------------------- periodic scan
NoOutcome == [x \in ExtIds |-> "none"]
Zero == [x \in ExtIds |-> 0]

\* The for loop moves to the next snapshot entry, or leaves the loop after the
\* last one.
ScanAdvance ==
    /\ idx' = idx + 1
    /\ spc' = IF idx + 1 > Len(online_users) THEN "returning" ELSE "loop"

\* check_and_notify_all_users up to its first await: return at once on an empty
\* registry, else open a session, snapshot the keys and resolve each to a user.
Start ==
    /\ spc = "idle"
    /\ scans < MaxScans
    /\ scans' = scans + 1
    /\ IF Len(active_connections) = 0
       THEN UNCHANGED <<spc, scanDb, online_users>>
       ELSE /\ online_users' = SelectSeq(Keys(active_connections), UserExists)
            /\ scanDb' = "open"
            /\ spc' = IF online_users' = <<>> THEN "returning" ELSE "loop"
    /\ UNCHANGED <<idx, outcome, matchCount, pushCount, pushId, pushWs, pushSends, pushResult>>
    /\ UNCHANGED <<regVars, connVars>>
    /\ UNCHANGED <<storeVars, updVars, pureVars, frameVars>>

ScanStart ==
    /\ Start
    /\ UNCHANGED histVars

\* The same step, with the history of failed pushes started afresh.
TScanStart ==
    /\ Start
    /\ failed_ids' = {}

\* check_construction_near_favorites raises: the except around the whole loop
\* logs the error and the loop is left.
ScanMatchRaises ==
    /\ spc = "loop"
    /\ LET x == online_users[idx] IN
         /\ outcome' = [outcome EXCEPT ![x] = "raise"]
         /\ matchCount' = [matchCount EXCEPT ![x] = @ + 1]
    /\ spc' = "returning"
    /\ UNCHANGED <<scans, online_users, idx, pushCount, pushId, pushWs, pushSends,
                   pushResult, scanDb>>
    /\ UNCHANGED <<regVars, connVars>>
    /\ UNCHANGED <<storeVars, updVars, pureVars, histVars, frameVars>>

\* The matcher returns no alerts: nothing is dispatched.
ScanMatchEmpty ==
    /\ spc = "loop"
    /\ LET x == online_users[idx] IN
         /\ outcome' = [outcome EXCEPT ![x] = "empty"]
         /\ matchCount' = [matchCount EXCEPT ![x] = @ + 1]
    /\ ScanAdvance
    /\ UNCHANGED <<scans, online_users, pushCount, pushId, pushWs, pushSends,
                   pushResult, scanDb>>
    /\ UNCHANGED <<regVars, connVars>>
    /\ UNCHANGED <<storeVars, updVars, pureVars, histVars, frameVars>>

\* The matcher returns alerts and send_construction_alert finds no entry:
\* it returns at once, without a send.
ScanPushAbsent ==
    /\ spc = "loop"
    /\ LET x == online_users[idx] IN
         /\ ~Has(active_connections, x)
         /\ outcome' = [outcome EXCEPT ![x] = "alerts"]
         /\ matchCount' = [matchCount EXCEPT ![x] = @ + 1]
         /\ pushCount' = [pushCount EXCEPT ![x] = @ + 1]
         /\ pushId' = x
    /\ pushWs' = NoConn
    /\ pushSends' = 0
    /\ pushResult' = AbsentResult
    /\ ScanAdvance
    /\ UNCHANGED <<scans, online_users, scanDb>>
    /\ UNCHANGED <<regVars, connVars>>
    /\ UNCHANGED <<storeVars, updVars, pureVars, histVars, frameVars>>

\* The matcher returns alerts and send_construction_alert finds an entry:
\* websocket = active_connections[x]; await websocket.send_json(...).
ScanPushSend ==
    /\ spc = "loop"
    /\ LET x == online_users[idx] IN
         /\ Has(active_connections, x)
         /\ outcome' = [outcome EXCEPT ![x] = "alerts"]
         /\ matchCount' = [matchCount EXCEPT ![x] = @ + 1]
         /\ pushCount' = [pushCount EXCEPT ![x] = @ + 1]
         /\ pushId' = x
         /\ pushWs' = Get(active_connections, x)
    /\ pushSends' = 1
    /\ pushResult' = "none"
    /\ spc' = "sending"
    /\ UNCHANGED <<scans, online_users, idx, scanDb>>
    /\ UNCHANGED <<regVars, connVars>>
    /\ UNCHANGED <<storeVars, updVars, pureVars, histVars, frameVars>>

\* The send completes: return True.
ScanSendOk ==
    /\ spc = "sending"
    /\ wsOpen[pushWs]
    /\ pushResult' = "True"
    /\ ScanAdvance
    /\ UNCHANGED <<scans, online_users, outcome, matchCount, pushCount, pushId, pushWs,
                   pushSends, scanDb>>
    /\ UNCHANGED <<regVars, connVars>>
    /\ UNCHANGED <<storeVars, updVars, pureVars, histVars, frameVars>>

\* The send raises: the entry under the identifier is deleted, return False.
SendFails ==
    /\ spc = "sending"
    /\ ~wsOpen[pushWs]
    /\ active_connections' = PushOnFailure(active_connections, pushId)
    /\ pushResult' = "False"
    /\ ScanAdvance
    /\ UNCHANGED <<scans, online_users, outcome, matchCount, pushCount, pushId, pushWs,
                   pushSends, scanDb>>
    /\ UNCHANGED connVars
    /\ UNCHANGED <<storeVars, updVars, pureVars, frameVars>>

ScanSendFails ==
    /\ SendFails
    /\ UNCHANGED histVars

\* The same step, with the identifier added to the history of failed pushes.
TScanSendFails ==
    /\ SendFails
    /\ failed_ids' = failed_ids \cup {pushId}

\* finally: db.close(); the call returns and its locals are gone.
ScanReturn ==
    /\ spc = "returning"
    /\ spc' = "idle"
    /\ scanDb' = "closed"
    /\ online_users' = <<>>
    /\ idx' = 1
    /\ outcome' = NoOutcome
    /\ matchCount' = Zero
    /\ pushCount' = Zero
    /\ pushId' = NoId
    /\ pushWs' = NoConn
    /\ pushSends' = 0
    /\ pushResult' = "none"
    /\ UNCHANGED scans
    /\ UNCHANGED <<regVars, connVars>>
    /\ UNCHANGED <<storeVars, updVars, pureVars, histVars, frameVars>>

\* ------------------------------------------------------- notice store
\* Rows a query of the saving session sees: the committed rows and the rows the
\* session has added itself (flushed before the query runs).
SessionView == notices \o session_new

\* faulty variant: the lookup compares names even when the notice has a url
ExistingByName(rows, n) ==
    IF n.name # "" THEN \E i \in 1..Len(rows) : rows[i].name = n.name ELSE FALSE

\* save_construction_notices, the lookup: by url when the notice has one, else
\* by name when it has one, else nothing is looked up
Existing(rows, n) ==
    IF n.url # NoUrl
    THEN \E i \in 1..Len(rows) : rows[i].url = n.url
    ELSE IF n.name # ""
         THEN \E i \in 1..Len(rows) : rows[i].name = n.name
         ELSE FALSE

\* Entry of save_construction_notices(session, notices, clear_existing) with a
\* list of k notices: the locals of the call.
SaveEnter(k, ce) ==
    /\ spc_save = "idle"
    /\ saves < MaxSaves
    /\ saves' = saves + 1
    /\ incoming' = k
    /\ todo' = k
    /\ clear_existing' = ce
    /\ saved_count' = 0
    /\ notices_before' = notices
    /\ reader_saw' = "none"
    /\ spc_save' = IF ce THEN "clearing" ELSE "loop"
    /\ UNCHANGED <<notices, session_new>>

\* save_construction_notices(session, notices, clear_existing) is called with a
\* list of k notices.
SaveCall(k, ce) ==
    /\ SaveEnter(k, ce)
    /\ UNCHANGED <<regVars, connVars, scanVars, histVars, updVars, pureVars, frameVars>>

\* if clear_existing: session.query(ConstructionNotice).delete(); session.commit()
\* The delete is committed on its own, before any insert.
SaveClear ==
    /\ spc_save = "clearing"
    /\ notices' = <<>>
    /\ spc_save' = "loop"
    /\ UNCHANGED <<session_new, clear_existing, todo, incoming, saved_count,
                   notices_before, saves, reader_saw>>
    /\ UNCHANGED <<regVars, connVars, scanVars, histVars, updVars, pureVars, frameVars>>

\* One iteration of the for loop: look the notice up, add it when not found.
SaveItem(n) ==
    /\ spc_save = "loop"
    /\ todo > 0
    /\ todo' = todo - 1
    /\ IF Existing(SessionView, n)
       THEN UNCHANGED <<session_new, saved_count>>
       ELSE /\ session_new' = Append(session_new, n)
            /\ saved_count' = saved_count + 1
    /\ UNCHANGED <<notices, spc_save, clear_existing, incoming, notices_before, saves,
                   reader_saw>>
    /\ UNCHANGED <<regVars, connVars, scanVars, histVars, updVars, pureVars, frameVars>>

\* After the loop: session.commit(); return saved_count.
SaveCommit ==
    /\ spc_save = "loop"
    /\ todo = 0
    /\ notices' = notices \o session_new
    /\ session_new' = <<>>
    /\ spc_save' = "returned"
    /\ UNCHANGED <<clear_existing, todo, incoming, saved_count, notices_before, saves,
                   reader_saw>>
    /\ UNCHANGED <<regVars, connVars, scanVars, histVars, updVars, pureVars, frameVars>>

\* A database operation raises: session.rollback() drops what is not committed,
\* and the exception is re-raised.
SaveRaises ==
    /\ spc_save \in {"clearing", "loop"}
    /\ session_new' = <<>>
    /\ spc_save' = "raised"
    /\ UNCHANGED <<notices, clear_existing, todo, incoming, saved_count, notices_before,
                   saves, reader_saw>>
    /\ UNCHANGED <<regVars, connVars, scanVars, histVars, updVars, pureVars, frameVars>>

\* The call is over (returned or raised); its locals are gone.
SaveLeave ==
    /\ spc_save \in {"returned", "raised"}
    /\ spc_save' = "idle"
    /\ clear_existing' = FALSE
    /\ todo' = 0
    /\ incoming' = 0
    /\ saved_count' = 0
    /\ notices_before' = <<>>
    /\ reader_saw' = "none"
    /\ UNCHANGED <<notices, session_new, saves>>

\* The caller of save_construction_notices goes on after the call.
SaveEnd ==
    /\ SaveLeave
    /\ UNCHANGED <<regVars, connVars, scanVars, histVars, updVars, pureVars, frameVars>>

\* check_construction_near_favorites, running in another session while a save
\* is in progress, queries the notices: it sees the committed rows.
ReaderQuery ==
    /\ spc_save \in {"clearing", "loop"}
    /\ reader_saw' = IF notices = <<>> THEN "empty" ELSE "rows"
    /\ UNCHANGED <<notices, session_new, spc_save, clear_existing, todo, incoming,
                   saved_count, notices_before, saves>>
    /\ UNCHANGED <<regVars, connVars, scanVars, histVars, updVars, pureVars, frameVars>>

\* ------------------------------------------- scrape and update (refresh)
\* max(page_numbers)
MaxOf(S) == CHOOSE m \in S : \A n \in S : n <= m

\* total_pages = 1; if page_numbers: total_pages = max(page_numbers)
PageCount(links) == IF links = {} THEN 1 ELSE MaxOf(links)

\* if max_pages: total_pages = min(total_pages, max_pages)
\* (None and 0 are both falsy)
Capped(total, mp) ==
    IF mp # NoLimit /\ mp # 0
    THEN (IF mp < total THEN mp ELSE total)
    ELSE total

\* faulty variant: the except clause of update lets the exception through
OnExceptionPropagate == "raised"

\* update_construction_notices: except Exception: return {"status": "error", ...}
OnException == "error"

\* update_construction_notices(session, max_pages, clear_existing) is called and
\* calls scrape_construction_notices(session, max_pages).
UpdCall(mp, ce) ==
    /\ update_call.upc = "idle"
    /\ spc_save = "idle"
    /\ saves < MaxSaves
    /\ update_call' = [update_call EXCEPT !.upc = "scraping", !.upd_clear = ce]
    /\ scrape_call' = [scrape_call EXCEPT !.cpc = "get", !.max_pages = mp]
    /\ UNCHANGED <<regVars, connVars, scanVars, histVars, storeVars, pureVars, frameVars>>

\* The initial GET returns a page whose pagination links carry the page numbers
\* links; total_pages is computed and capped.
CrawlGetInitial(links) ==
    /\ scrape_call.cpc = "get"
    /\ scrape_call' = [scrape_call EXCEPT
                         !.soup = 0,
                         !.page_numbers = links,
                         !.total_pages = Capped(PageCount(links), scrape_call.max_pages),
                         !.page_num = 1,
                         !.cpc = "loop"]
    /\ UNCHANGED update_call
    /\ UNCHANGED <<regVars, connVars, scanVars, histVars, storeVars, pureVars, frameVars>>

\* The initial GET or its parsing raises: except Exception: raise.
CrawlGetFails ==
    /\ scrape_call.cpc = "get"
    /\ scrape_call' = [scrape_call EXCEPT !.cpc = "raised"]
    /\ UNCHANGED update_call
    /\ UNCHANGED <<regVars, connVars, scanVars, histVars, storeVars, pureVars, frameVars>>

\* One iteration of the page loop: the form state of the current soup is
\* posted for page_num, the response becomes the soup and its rows records.
CrawlPost(rows) ==
    /\ scrape_call.cpc = "loop"
    /\ scrape_call.page_num <= scrape_call.total_pages
    /\ scrape_call' = [scrape_call EXCEPT
                         !.requests = Append(@, [page |-> scrape_call.page_num,
                                                 form |-> scrape_call.soup]),
                         !.soup = Len(scrape_call.requests) + 1,
                         !.all_notices = @ + rows,
                         !.page_num = @ + 1]
    /\ UNCHANGED update_call
    /\ UNCHANGED <<regVars, connVars, scanVars, histVars, storeVars, pureVars, frameVars>>

\* The POST of an iteration, or the parsing of its response, raises.
CrawlPostFails ==
    /\ scrape_call.cpc = "loop"
    /\ scrape_call.page_num <= scrape_call.total_pages
    /\ scrape_call' = [scrape_call EXCEPT
                         !.requests = Append(@, [page |-> scrape_call.page_num,
                                                 form |-> scrape_call.soup]),
                         !.cpc = "raised"]
    /\ UNCHANGED update_call
    /\ UNCHANGED <<regVars, connVars, scanVars, histVars, storeVars, pureVars, frameVars>>

\* After the last page: return all_notices.
CrawlReturn ==
    /\ scrape_call.cpc = "loop"
    /\ scrape_call.page_num > scrape_call.total_pages
    /\ scrape_call' = [scrape_call EXCEPT !.cpc = "returned"]
    /\ UNCHANGED update_call
    /\ UNCHANGED <<regVars, connVars, scanVars, histVars, storeVars, pureVars, frameVars>>

\* The locals of scrape_construction_notices are gone when it is left; its
\* outcome and the list it returned stay with the caller.
CrawlLeave ==
    scrape_call' = [scrape_call EXCEPT
                      !.max_pages = NoLimit,
                      !.page_numbers = {},
                      !.total_pages = 0,
                      !.page_num = 0,
                      !.soup = 0,
                      !.requests = <<>>]

\* The scrape returned: update calls save_construction_notices with its list.
UpdSave ==
    /\ update_call.upc = "scraping"
    /\ scrape_call.cpc = "returned"
    /\ SaveEnter(scrape_call.all_notices, update_call.upd_clear)
    /\ update_call' = [update_call EXCEPT !.upc = "saving"]
    /\ CrawlLeave
    /\ UNCHANGED <<regVars, connVars, scanVars, histVars, pureVars, frameVars>>

\* The scrape raised: the except clause of update takes over, save is skipped.
UpdScrapeError ==
    /\ update_call.upc = "scraping"
    /\ scrape_call.cpc = "raised"
    /\ update_call' = [update_call EXCEPT !.upc = "done", !.upd_result = OnException]
    /\ CrawlLeave
    /\ UNCHANGED <<regVars, connVars, scanVars, histVars, storeVars, pureVars, frameVars>>

\* The save returned: update returns the success result.
UpdSuccess ==
    /\ update_call.upc = "saving"
    /\ spc_save = "returned"
    /\ update_call' = [update_call EXCEPT
                         !.upc = "done",
                         !.upd_result = "success",
                         !.scraped_count = scrape_call.all_notices,
                         !.upd_saved = saved_count]
    /\ SaveLeave
    /\ UNCHANGED scrape_call
    /\ UNCHANGED <<regVars, connVars, scanVars, histVars, pureVars, frameVars>>

\* The save raised: the except clause of update takes over.
UpdSaveError ==
    /\ update_call.upc = "saving"
    /\ spc_save = "raised"
    /\ update_call' = [update_call EXCEPT !.upc = "done", !.upd_result = OnException]
    /\ SaveLeave
    /\ UNCHANGED scrape_call
    /\ UNCHANGED <<regVars, connVars, scanVars, histVars, pureVars, frameVars>>

\* The locals of update_construction_notices when no call is running.
NoUpdate ==
    [upc |-> "idle", upd_clear |-> FALSE, upd_result |-> "none",
     scraped_count |-> 0, upd_saved |-> 0]

\* The locals of scrape_construction_notices when no call is running.
NoScrape ==
    [cpc |-> "idle", max_pages |-> NoLimit, page_numbers |-> {}, total_pages |-> 0,
     page_num |-> 0, soup |-> 0, requests |-> <<>>, all_notices |-> 0]

\* No update is running.
UpdateIdle ==
    /\ update_call = NoUpdate
    /\ scrape_call = NoScrape

\* The caller has the result; the locals of the call are gone.
UpdEnd ==
    /\ update_call.upc = "done"
    /\ update_call' = NoUpdate
    /\ scrape_call' = NoScrape
    /\ UNCHANGED <<regVars, connVars, scanVars, histVars, storeVars, pureVars, frameVars>>

\* ------------------------------------------------------ date normalizer
\* Strings are sequences of one-character strings.
DigitChars == <<"0", "1", "2", "3", "4", "5", "6", "7", "8", "9">>
Space == " "

\* None as a date
NoDate == [y |-> 0, m |-> 0, d |-> 0]

\* str.strip(): leading and trailing whitespace removed
RECURSIVE LStrip(_)
LStrip(s) == IF s # <<>> /\ Head(s) = Space THEN LStrip(Tail(s)) ELSE s

RECURSIVE RStrip(_)
RStrip(s) ==
    IF s # <<>> /\ s[Len(s)] = Space THEN RStrip(SubSeq(s, 1, Len(s) - 1)) ELSE s

Strip(s) == RStrip(LStrip(s))

\* ch in s
Contains(s, ch) == \E i \in 1..Len(s) : s[i] = ch

\* s.find(ch) + 1 for a character that occurs in s
FirstIndex(s, ch) == CHOOSE i \in 1..Len(s) : s[i] = ch /\ \A j \in 1..(i - 1) : s[j] # ch

\* s.split(ch): every field between separators, empty ones included
RECURSIVE Split(_, _)
Split(s, ch) ==
    IF Contains(s, ch)
    THEN <<SubSeq(s, 1, FirstIndex(s, ch) - 1)>>
            \o Split(SubSeq(s, FirstIndex(s, ch) + 1, Len(s)), ch)
    ELSE <<s>>

RECURSIVE DigitsValue(_)
DigitsValue(ds) ==
    IF ds = <<>> THEN 0
    ELSE 10 * DigitsValue(SubSeq(ds, 1, Len(ds) - 1))
           + ((CHOOSE n \in 1..10 : DigitChars[n] = ds[Len(ds)]) - 1)

\* int(text): surrounding whitespace and one sign are accepted, then at least
\* one digit and digits only; anything else is a ValueError (ok = FALSE).
ParseInt(text) ==
    LET u == Strip(text)
        signed == u # <<>> /\ Head(u) \in {"+", "-"}
        ds == IF signed THEN Tail(u) ELSE u
        ok == ds # <<>> /\ \A i \in 1..Len(ds) : \E n \in 1..10 : DigitChars[n] = ds[i]
    IN  [ok |-> ok,
         val |-> IF ~ok THEN 0
                 ELSE IF signed /\ Head(u) = "-" THEN 0 - DigitsValue(ds) ELSE DigitsValue(ds)]

IsLeap(y) == (y % 4 = 0 /\ y % 100 # 0) \/ y % 400 = 0

DaysInMonth(y, m) ==
    IF m = 2 THEN (IF IsLeap(y) THEN 29 ELSE 28)
    ELSE IF m \in {4, 6, 9, 11} THEN 30 ELSE 31

\* datetime.date(y, m, d) does not raise ValueError
ValidDate(y, m, d) ==
    /\ y >= 1 /\ y <= 9999
    /\ m >= 1 /\ m <= 12
    /\ d >= 1 /\ d <= DaysInMonth(y, m)

\* the inner function roc_to_gregorian
roc_to_gregorian(roc_date_str) ==
    LET parts == Split(roc_date_str, "/")
    IN  IF Len(parts) # 3 THEN NoDate
        ELSE LET roc_year == ParseInt(parts[1])
                 month == ParseInt(parts[2])
                 day == ParseInt(parts[3])
                 gregorian_year == roc_year.val + 1911
             IN  IF roc_year.ok /\ month.ok /\ day.ok
                      /\ ValidDate(gregorian_year, month.val, day.val)
                 THEN [y |-> gregorian_year, m |-> month.val, d |-> day.val]
                 ELSE NoDate

\* parse_roc_date_range: the pair it returns
parse_roc_date_range(str) ==
    IF str = <<>> \/ Strip(str) = <<>>
    THEN <<NoDate, NoDate>>
    ELSE IF Contains(str, "-")
         THEN LET cut == FirstIndex(str, "-")
                  start_str == Strip(SubSeq(str, 1, cut - 1))
                  end_str == Strip(SubSeq(str, cut + 1, Len(str)))
              IN  <<roc_to_gregorian(start_str), roc_to_gregorian(end_str)>>
         ELSE <<roc_to_gregorian(Strip(str)), roc_to_gregorian(Strip(str))>>

\* The inputs the normalizer is run on: one side, or two sides around "-",
\* each side two to four "/"-separated fields with optional padding.
Join(a, b) == a \o <<"/">> \o b
YearTexts == {<<"1", "1", "3">>, <<"1", "1", "4">>}
MonthTexts == {<<"2">>, <<"1", "2">>, <<"1", "3">>, <<"x">>}
DayTexts == {<<"1">>, <<"2", "9">>, <<"3", "1">>, <<>>}
SideTexts ==
    {Join(Join(y, m), d) : y \in YearTexts, m \in MonthTexts, d \in DayTexts}
        \cup {Join(y, <<"2">>) : y \in YearTexts}
        \cup {Join(Join(Join(y, <<"2">>), <<"1">>), <<"1">>) : y \in YearTexts}
        \cup {<<>>, <<"-", "1", "/", "2", "/", "1">>}
Pad(n) == [i \in 1..n |-> Space]
PaddedSides ==
    {Pad(pq[1]) \o t \o Pad(pq[2]) :
        t \in SideTexts,
        pq \in {x \in (0..MaxPad) \X (0..MaxPad) : x[1] + x[2] <= MaxPad}}
DateInputs == PaddedSides \cup {a \o <<"-">> \o b : a \in PaddedSides, b \in PaddedSides}

\* parse_roc_date_range runs on its argument and returns.
DateParse ==
    /\ date_call.dpc = "called"
    /\ date_call' = [date_call EXCEPT
                       !.dpc = "returned",
                       !.start_date = parse_roc_date_range(date_call.date_range_str)[1],
                       !.end_date = parse_roc_date_range(date_call.date_range_str)[2]]
    /\ UNCHANGED <<coords_call, match_call>>
    /\ UNCHANGED <<regVars, connVars, scanVars, histVars, storeVars, updVars, frameVars>>

\* ------------------------------------------- favorite geometry extractor
\* Latitudes and longitudes are integers, in steps of 0.0001 degree.
\* None as a coordinate, and a key a dict does not have
NullCoord == -1000
AbsentKey == -2000

\* A structured coordinate object (a JSON column): None, a dict with or without
\* the keys lat and lon (a present key may hold null), or something that is
\* not a dict.
NoCoords == [kind |-> "none", lat |-> AbsentKey, lon |-> AbsentKey]
CoordObjects ==
    {NoCoords, [kind |-> "list", lat |-> AbsentKey, lon |-> AbsentKey]}
        \cup [kind : {"dict"}, lat : {AbsentKey, NullCoord, 0}, lon : {AbsentKey, NullCoord, 5}]

\* if favorite.route_start_coords: (None and the empty dict are falsy; dicts
\* carry no other key here)
Truthy(coords) ==
    /\ coords.kind # "none"
    /\ ~(coords.kind = "dict" /\ coords.lat = AbsentKey /\ coords.lon = AbsentKey)

\* if coords: if isinstance(coords, dict) and 'lat' in coords and 'lon' in coords:
\*     coordinates.append((coords['lat'], coords['lon']))
RoutePoint(coords) ==
    IF /\ Truthy(coords)
       /\ coords.kind = "dict"
       /\ coords.lat # AbsentKey
       /\ coords.lon # AbsentKey
    THEN <<[lat |-> coords.lat, lon |-> coords.lon]>>
    ELSE <<>>

\* if favorite.lat is not None and favorite.lon is not None: append
OwnPoint(fav) ==
    IF fav.lat # NullCoord /\ fav.lon # NullCoord
    THEN <<[lat |-> fav.lat, lon |-> fav.lon]>>
    ELSE <<>>

get_favorite_coordinates(fav) ==
    IF fav.type = "place" THEN OwnPoint(fav)
    ELSE IF fav.type = "road" THEN OwnPoint(fav)
    ELSE IF fav.type = "route"
         THEN RoutePoint(fav.route_start_coords) \o RoutePoint(fav.route_end_coords)
         ELSE <<>>

\* The geometry of a favorite: a place or a road with its own point (or part
\* of it), or a route with its two coordinate objects.
FavoriteGeometries ==
    [type : {"place", "road"}, lat : {NullCoord, 0, 9}, lon : {NullCoord, 0, 9},
     route_start_coords : {NoCoords}, route_end_coords : {NoCoords}]
        \cup [type : {"route"}, lat : {NullCoord}, lon : {NullCoord},
              route_start_coords : CoordObjects, route_end_coords : CoordObjects]

\* get_favorite_coordinates runs on its argument and returns.
CoordsExtract ==
    /\ coords_call.gpc = "called"
    /\ coords_call' = [coords_call EXCEPT
                         !.gpc = "returned",
                         !.coordinates = get_favorite_coordinates(coords_call.favorite)]
    /\ UNCHANGED <<date_call, match_call>>
    /\ UNCHANGED <<regVars, connVars, scanVars, histVars, storeVars, updVars, frameVars>>

\* ------------------------------------------------------ proximity matcher
\* Dates are days relative to date.today(); None as a date column is NullDay.
Today == 0
NullDay == -1000

\* None as a distance_threshold
NoThreshold == -1
DefaultThreshold == 100

\* Length of one coordinate step (0.0001 degree of arc on a sphere of radius
\* 6371000 m) in centimetres.
CmPerStep == 1112

\* haversine_distance_meters(lat1, lon1, lat2, lon2) <= meters, for points a few
\* steps from latitude 0, where the great-circle distance is the length of
\* the straight segment between them.
WithinMeters(lat1, lon1, lat2, lon2, meters) ==
    /\ meters >= 0
    /\ CmPerStep * CmPerStep * ((lat2 - lat1) * (lat2 - lat1) + (lon2 - lon1) * (lon2 - lon1))
          <= (meters * 100) * (meters * 100)

\* threshold_meters = favorite.distance_threshold or 100.0
ThresholdOf(fav) ==
    IF fav.distance_threshold = NoThreshold \/ fav.distance_threshold = 0
    THEN DefaultThreshold
    ELSE fav.distance_threshold

\* the filter of the notice query: start_date <= today and end_date >= today
\* (a comparison with NULL selects nothing)
IsActive(con) ==
    /\ con.start_date # NullDay /\ con.start_date <= Today
    /\ con.end_date # NullDay /\ con.end_date >= Today

\* geometry is a dict of type Point whose coordinates list has two entries
HasPoint(con) == con.geometry.kind = "Point" /\ Len(con.geometry.coordinates) >= 2

\* faulty variant: no break after a match and no look at notified_combinations
RECURSIVE PointLoopNoBreak(_, _, _, _, _)
PointLoopNoBreak(points, fav, con, thr, notified) ==
    IF points = <<>> THEN [raised |-> FALSE, alerts |-> <<>>]
    ELSE IF Head(points).lat = NullCoord \/ Head(points).lon = NullCoord
         THEN [raised |-> TRUE, alerts |-> <<>>]
         ELSE LET rest == PointLoopNoBreak(Tail(points), fav, con, thr, notified)
                  here == IF WithinMeters(Head(points).lat, Head(points).lon,
                                          con.geometry.coordinates[2],
                                          con.geometry.coordinates[1], thr)
                          THEN <<[favorite_id |-> fav.id, construction_id |-> con.id]>>
                          ELSE <<>>
              IN  [raised |-> rest.raised, alerts |-> here \o rest.alerts]

\* for fav_lat, fav_lon in favorite_coords: the first point within the
\* threshold appends an alert (unless its key was notified) and ends the loop;
\* haversine raises TypeError on a None coordinate.
RECURSIVE PointLoop(_, _, _, _, _)
PointLoop(points, fav, con, thr, notified) ==
    IF points = <<>> THEN [raised |-> FALSE, alerts |-> <<>>]
    ELSE IF Head(points).lat = NullCoord \/ Head(points).lon = NullCoord
         THEN [raised |-> TRUE, alerts |-> <<>>]
         ELSE IF WithinMeters(Head(points).lat, Head(points).lon,
                              con.geometry.coordinates[2],
                              con.geometry.coordinates[1], thr)
              THEN [raised |-> FALSE,
                    alerts |-> IF [favorite_id |-> fav.id, construction_id |-> con.id]
                                     \in notified
                               THEN <<>>
                               ELSE <<[favorite_id |-> fav.id, construction_id |-> con.id]>>]
              ELSE PointLoop(Tail(points), fav, con, thr, notified)

\* for construction in construction_notices: acc is the alerts list so far
RECURSIVE NoticeLoop(_, _, _, _)
NoticeLoop(cons, fav, points, acc) ==
    IF cons = <<>> THEN [raised |-> FALSE, alerts |-> acc]
    ELSE IF ~HasPoint(Head(cons))
         THEN NoticeLoop(Tail(cons), fav, points, acc)
         ELSE LET r == PointLoop(points, fav, Head(cons), ThresholdOf(fav),
                                 {acc[i] : i \in 1..Len(acc)})
              IN  IF r.raised
                  THEN [raised |-> TRUE, alerts |-> acc]
                  ELSE NoticeLoop(Tail(cons), fav, points, acc \o r.alerts)

\* for favorite in favorites: a favorite without coordinates is skipped
RECURSIVE FavoriteLoop(_, _, _)
FavoriteLoop(favs, cons, acc) ==
    IF favs = <<>> THEN [raised |-> FALSE, alerts |-> acc]
    ELSE IF get_favorite_coordinates(Head(favs)) = <<>>
         THEN FavoriteLoop(Tail(favs), cons, acc)
         ELSE LET r == NoticeLoop(cons, Head(favs), get_favorite_coordinates(Head(favs)), acc)
              IN  IF r.raised THEN r ELSE FavoriteLoop(Tail(favs), cons, r.alerts)

\* check_construction_near_favorites(user_id, db): the list it returns, or
\* raised when an exception leaves it
check_construction_near_favorites(uid, favRows, conRows) ==
    LET favorites == SelectSeq(favRows, LAMBDA f : f.user_id = uid /\ f.notification_enabled)
        construction_notices == SelectSeq(conRows, IsActive)
    IN  IF favorites = <<>>
        THEN [raised |-> FALSE, alerts |-> <<>>]
        ELSE FavoriteLoop(favorites, construction_notices, <<>>)

\* The stored data the matcher is run on: two favorites and two notices.
NearPoint == [kind |-> "dict", lat |-> 0, lon |-> 5]
FarPoint == [kind |-> "dict", lat |-> 20, lon |-> 0]
NullLatPoint == [kind |-> "dict", lat |-> NullCoord, lon |-> 5]
MatchGeometries ==
    [type : {"place"}, lat : {NullCoord, 0, 9}, lon : {0},
     route_start_coords : {NoCoords}, route_end_coords : {NoCoords}]
        \cup [type : {"road"}, lat : {0}, lon : {0},
              route_start_coords : {NoCoords}, route_end_coords : {NoCoords}]
        \cup [type : {"route"}, lat : {NullCoord}, lon : {NullCoord},
              route_start_coords : {NoCoords, NearPoint, FarPoint, NullLatPoint},
              route_end_coords : {NoCoords, NearPoint, FarPoint}]
Owners ==
    {[user_id |-> 1, notification_enabled |-> TRUE],
     [user_id |-> 1, notification_enabled |-> FALSE],
     [user_id |-> 2, notification_enabled |-> TRUE]}
Thresholds == {NoThreshold, 0, 150}
MakeFavorite(i, g, o, t) ==
    [id |-> i, user_id |-> o.user_id, notification_enabled |-> o.notification_enabled,
     type |-> g.type, lat |-> g.lat, lon |-> g.lon,
     route_start_coords |-> g.route_start_coords, route_end_coords |-> g.route_end_coords,
     distance_threshold |-> t]
FirstFavorites == {MakeFavorite(1, g, o, t) : g \in MatchGeometries, o \in Owners, t \in Thresholds}
SecondFavorites ==
    {MakeFavorite(2, [type |-> "place", lat |-> 0, lon |-> 0,
                      route_start_coords |-> NoCoords, route_end_coords |-> NoCoords],
                  [user_id |-> 1, notification_enabled |-> TRUE], NoThreshold),
     MakeFavorite(2, [type |-> "route", lat |-> NullCoord, lon |-> NullCoord,
                      route_start_coords |-> NearPoint, route_end_coords |-> NearPoint],
                  [user_id |-> 1, notification_enabled |-> TRUE], 150)}
Geometries ==
    {[kind |-> "none", coordinates |-> <<>>],
     [kind |-> "Point", coordinates |-> <<0, 0>>],
     [kind |-> "Point", coordinates |-> <<0, 9>>],
     [kind |-> "Point", coordinates |-> <<0>>],
     [kind |-> "LineString", coordinates |-> <<0, 0>>],
     [kind |-> "text", coordinates |-> <<>>]}
Periods ==
    {[start_date |-> -1, end_date |-> 1], [start_date |-> 0, end_date |-> 0],
     [start_date |-> NullDay, end_date |-> 1], [start_date |-> -1, end_date |-> NullDay],
     [start_date |-> 1, end_date |-> 2], [start_date |-> -2, end_date |-> -1]}
MakeNotice(i, g, p) ==
    [id |-> i, start_date |-> p.start_date, end_date |-> p.end_date, geometry |-> g]
FirstNotices == {MakeNotice(1, g, p) : g \in Geometries, p \in Periods}
SecondNotices ==
    {MakeNotice(2, [kind |-> "Point", coordinates |-> <<0, 0>>], [start_date |-> -1, end_date |-> 1]),
     MakeNotice(2, [kind |-> "Point", coordinates |-> <<0, 0>>], [start_date |-> -2, end_date |-> -1])}

\* check_construction_near_favorites runs and returns its list or raises.
MatchCheck ==
    /\ match_call.mpc = "called"
    /\ LET r == check_construction_near_favorites(match_call.user_id,
                                                  match_call.favorite_rows,
                                                  match_call.notice_rows)
       IN  match_call' = [match_call EXCEPT
                            !.mpc = IF r.raised THEN "raised" ELSE "returned",
                            !.alerts = IF r.raised THEN <<>> ELSE r.alerts]
    /\ UNCHANGED <<date_call, coords_call>>
    /\ UNCHANGED <<regVars, connVars, scanVars, histVars, storeVars, updVars, frameVars>>

\* ---------------------------------------------------------------- Spec
\* No client of the set S has connected yet.
HandlersIdle(S) ==
    /\ pc = [c \in S |-> "idle"]
    /\ ext = [c \in S |-> NoId]
    /\ prior = [c \in S |-> NoConn]
    /\ wsOpen = [c \in S |-> FALSE]
    /\ closeCalls = [c \in S |-> {}]
    /\ acked = [c \in S |-> 0]
    /\ db = [c \in S |-> "none"]
    /\ fault = [c \in S |-> FALSE]
    /\ data = [c \in S |-> "none"]
    /\ replies = [c \in S |-> 0]

\* The server after import: nothing registered, no scan, save or update
\* running, an empty table.
ServerIdle ==
    /\ active_connections = <<>>
    /\ failed_ids = {}
    /\ spc = "idle"
    /\ scans = 0
    /\ online_users = <<>>
    /\ idx = 1
    /\ outcome = NoOutcome
    /\ matchCount = Zero
    /\ pushCount = Zero
    /\ pushId = NoId
    /\ pushWs = NoConn
    /\ pushSends = 0
    /\ pushResult = "none"
    /\ scanDb = "none"
    /\ notices = <<>>
    /\ session_new = <<>>
    /\ spc_save = "idle"
    /\ clear_existing = FALSE
    /\ todo = 0
    /\ incoming = 0
    /\ saved_count = 0
    /\ notices_before = <<>>
    /\ saves = 0
    /\ reader_saw = "none"
    /\ UpdateIdle

\* The state after import: nothing registered, nothing running, an empty table.
InitPipeline ==
    /\ HandlersIdle(Conns)
    /\ ServerIdle

\* No call of the normalizer.
DateIdle ==
    date_call = [date_range_str |-> <<>>, dpc |-> "idle",
                 start_date |-> NoDate, end_date |-> NoDate]

\* No call of the extractor.
CoordsIdle ==
    coords_call = [favorite |-> [type |-> "none", lat |-> NullCoord, lon |-> NullCoord,
                                 route_start_coords |-> NoCoords,
                                 route_end_coords |-> NoCoords],
                   gpc |-> "idle", coordinates |-> <<>>]

\* No call of the matcher.
MatchIdle ==
    match_call = [user_id |-> 0, favorite_rows |-> <<>>, notice_rows |-> <<>>,
                  mpc |-> "idle", alerts |-> <<>>]

Init ==
    /\ InitPipeline
    /\ DateIdle
    /\ CoordsIdle
    /\ MatchIdle

\* check_construction_near_favorites has been called for user 1.
InitMatch ==
    /\ InitPipeline
    /\ DateIdle
    /\ CoordsIdle
    /\ match_call \in
          [user_id : {1},
           favorite_rows : {<<f, g>> : f \in FirstFavorites, g \in SecondFavorites},
           notice_rows : {<<n, m>> : n \in FirstNotices, m \in SecondNotices},
           mpc : {"called"},
           alerts : {<<>>}]

\* get_favorite_coordinates has been called on some favorite.
InitCoords ==
    /\ InitPipeline
    /\ DateIdle
    /\ coords_call \in [favorite : FavoriteGeometries, gpc : {"called"},
                         coordinates : {<<>>}]
    /\ MatchIdle

\* parse_roc_date_range has been called on some input.
InitDates ==
    /\ InitPipeline
    /\ date_call \in [date_range_str : DateInputs, dpc : {"called"},
                       start_date : {NoDate}, end_date : {NoDate}]
    /\ CoordsIdle
    /\ MatchIdle

vars == <<regVars, connVars, scanVars, storeVars, updVars, pureVars, frameVars, histVars>>

Next ==
    \/ \E c \in Conns, x \in ExtIds : HAccept(c, x)
    \/ \E c \in Conns : HReject(c)
    \/ \E c \in Conns : HClosePrior(c)
    \/ \E c \in Conns : HRegister(c)
    \/ \E c \in Conns : HAck(c)
    \/ \E c \in Conns : HDisconnect(c)
    \/ \E c \in Conns, f \in TextFrames : HReceiveText(c, f)
    \/ \E c \in Conns : HReceiveFault(c)
    \/ \E c \in Conns : HPong(c)
    \/ \E c \in Conns : ClientDisconnect(c)
    \/ ScanStart
    \/ ScanMatchRaises
    \/ ScanMatchEmpty
    \/ ScanPushAbsent
    \/ ScanPushSend
    \/ ScanSendOk
    \/ ScanSendFails
    \/ ScanReturn

Spec == Init /\ [][Next]_vars

\* ------------------------------------------------------------ SpecCycles
\* The same pipeline, keeping the history of failed pushes from one scan to
\* the next.
NextCycles ==
    \/ \E c \in Conns, x \in ExtIds : HAccept(c, x)
    \/ \E c \in Conns : HReject(c)
    \/ \E c \in Conns : HClosePrior(c)
    \/ \E c \in Conns : HRegister(c)
    \/ \E c \in Conns : HAck(c)
    \/ \E c \in Conns : HDisconnect(c)
    \/ \E c \in Conns, f \in TextFrames : HReceiveText(c, f)
    \/ \E c \in Conns : HReceiveFault(c)
    \/ \E c \in Conns : HPong(c)
    \/ \E c \in Conns : ClientDisconnect(c)
    \/ TScanStart
    \/ ScanMatchRaises
    \/ ScanMatchEmpty
    \/ ScanPushAbsent
    \/ ScanPushSend
    \/ ScanSendOk
    \/ TScanSendFails
    \/ ScanReturn

SpecCycles == Init /\ [][NextCycles]_vars

NextStore ==
    \/ \E k \in 0..MaxBatch, ce \in BOOLEAN : SaveCall(k, ce)
    \/ SaveClear
    \/ \E n \in NoticeData : SaveItem(n)
    \/ SaveCommit
    \/ SaveRaises
    \/ SaveEnd
    \/ ReaderQuery

SpecStore == Init /\ [][NextStore]_vars

NextUpdate ==
    \/ \E mp \in PageLimits, ce \in BOOLEAN : UpdCall(mp, ce)
    \/ \E links \in SUBSET (1..MaxPageNo) : CrawlGetInitial(links)
    \/ CrawlGetFails
    \/ \E rows \in RowsPerPage : CrawlPost(rows)
    \/ CrawlPostFails
    \/ CrawlReturn
    \/ UpdSave
    \/ UpdScrapeError
    \/ SaveClear
    \/ \E n \in NoticeData : SaveItem(n)
    \/ SaveCommit
    \/ SaveRaises
    \/ UpdSuccess
    \/ UpdSaveError
    \/ UpdEnd

SpecUpdate == Init /\ [][NextUpdate]_vars

NextDates == DateParse

SpecDates == InitDates /\ [][NextDates]_vars

NextCoords == CoordsExtract

SpecCoords == InitCoords /\ [][NextCoords]_vars

NextFrames ==
    \/ \E c \in Conns, x \in ExtIds : HAccept(c, x)
    \/ \E c \in Conns : HReject(c)
    \/ \E c \in Conns : HClosePrior(c)
    \/ \E c \in Conns : HRegister(c)
    \/ \E c \in Conns : HAck(c)
    \/ \E c \in Conns : HDisconnect(c)
    \/ \E c \in Conns, f \in TextFrames : FReceiveText(c, f)
    \/ \E c \in Conns : FReceiveFault(c)
    \/ \E c \in Conns : FPong(c)
    \/ \E c \in Conns : ClientDisconnect(c)

SpecFrames == Init /\ [][NextFrames]_vars

\* ------------------------------------------------------- SpecHandshakes
\* The connection handlers alone, for NumHandshakes clients: enough for two
\* handshakes to run while a third connection is registered.
InitHandshakes ==
    /\ HandlersIdle(Handshakes)
    /\ ServerIdle
    /\ DateIdle
    /\ CoordsIdle
    /\ MatchIdle

NextHandshakes ==
    \/ \E c \in Handshakes, x \in ExtIds : HAccept(c, x)
    \/ \E c \in Handshakes : HReject(c)
    \/ \E c \in Handshakes : HClosePrior(c)
    \/ \E c \in Handshakes : HRegister(c)
    \/ \E c \in Handshakes : HAck(c)
    \/ \E c \in Handshakes : HDisconnect(c)
    \/ \E c \in Handshakes, f \in TextFrames : HReceiveText(c, f)
    \/ \E c \in Handshakes : HReceiveFault(c)
    \/ \E c \in Handshakes : HPong(c)
    \/ \E c \in Handshakes : ClientDisconnect(c)

SpecHandshakes == InitHandshakes /\ [][NextHandshakes]_vars

NextMatch == MatchCheck

SpecMatch == InitMatch /\ [][NextMatch]_vars


\* ================================================================ claims
\* ---- connection registry, handlers and scan (specification Spec) ----

\* The handler of connection c makes a step.
Steps(c) == pc'[c] # pc[c]

\* C1: when a handshake for identifier X found a prior connection registered,
\* then at the moment it registers its own connection the registry holds
\* exactly one entry for X, that entry is the new connection, and close() has
\* been called on the prior connection (which is no longer open); and the
\* cleanup of a handler whose connection is not the registered one leaves the
\* registry as it is.
C1_ReconnectReplaces ==
    [][\A c \in Conns :
         /\ (pc[c] = "closing_prior" /\ Steps(c)) =>
              /\ Get(active_connections', ext[c]) = c
              /\ EntriesFor(active_connections', ext[c]) = 1
              /\ NormalClosure \in closeCalls'[prior[c]]
              /\ ~wsOpen'[prior[c]]
         /\ (pc[c] = "receiving" /\ pc'[c] = "done"
                 /\ Get(active_connections, ext[c]) # c) =>
              active_connections' = active_connections
      ]_vars

\* C1 witness: connection c replaced a prior connection, is the registered one,
\* and the prior handler has since run its cleanup and terminated.
C1_Witness ==
    \E c \in Conns :
        /\ prior[c] # NoConn
        /\ pc[c] = "receiving"
        /\ Get(active_connections, ext[c]) = c
        /\ pc[prior[c]] = "done"
        /\ acked[prior[c]] = 1
        /\ NormalClosure \in closeCalls[prior[c]]

\* C2: a handler whose identifier matches no User has close(1008) called on its
\* connection and sends no acknowledgement; none of its steps changes the
\* registry or calls close on another connection, and the registry never holds
\* an entry for its identifier or its connection.
C2_UnknownIdentityRejected ==
    /\ [](\A c \in Conns :
            (ext[c] # NoId /\ ext[c] \notin Users) =>
               /\ ~Has(active_connections, ext[c])
               /\ \A i \in 1..Len(active_connections) : active_connections[i].ws # c
               /\ acked[c] = 0
               /\ pc[c] = "done" => PolicyViolation \in closeCalls[c])
    /\ [][\A c \in Conns :
            (Steps(c) /\ ext'[c] \notin Users) =>
               /\ active_connections' = active_connections
               /\ acked' = acked
               /\ \A d \in Conns \ {c} : closeCalls'[d] = closeCalls[d] /\ wsOpen'[d] = wsOpen[d]
         ]_vars

\* C2 witness: an unknown identifier was rejected while another connection is
\* registered and stays so.
C2_Witness ==
    \E c \in Conns :
        /\ pc[c] = "done"
        /\ ext[c] = "ghost"
        /\ closeCalls[c] = {PolicyViolation}
        /\ \E d \in Conns : pc[d] = "receiving" /\ Get(active_connections, ext[d]) = d

\* C3: a push that found an entry makes exactly one send attempt; when the send
\* succeeds it returns true and leaves the registry as it is (it removes no
\* entry); when the send fails it returns false with no entry left for the
\* identifier; either way the caller's loop goes on (nothing is raised) and no
\* further send is started by that call.
C3_PushOneAttempt ==
    [][/\ \A x \in ExtIds :
            (pushCount'[x] = pushCount[x] + 1 /\ Has(active_connections, x)) =>
               (pushSends' = 1 /\ pushResult' = "none" /\ spc' = "sending")
       /\ (spc = "sending" /\ spc' # "sending") =>
            /\ pushSends' = 1
            /\ pushResult' \in {"True", "False"}
            /\ spc' \in {"loop", "returning"}
            /\ wsOpen[pushWs] =>
                 /\ pushResult' = "True"
                 /\ active_connections' = active_connections
            /\ ~wsOpen[pushWs] =>
                 /\ pushResult' = "False"
                 /\ ~Has(active_connections', pushId)
      ]_vars

\* C3 witness: a push whose single send failed has returned false and the entry
\* is gone.
C3_Witness ==
    /\ pushId # NoId
    /\ pushWs # NoConn
    /\ pushSends = 1
    /\ pushResult = "False"
    /\ ~Has(active_connections, pushId)

\* C4: a push for an identifier with no registry entry returns false at once,
\* starts no send, and changes neither the registry nor any connection.
C4_PushAbsentNoOp ==
    [][\A x \in ExtIds :
         (pushCount'[x] = pushCount[x] + 1 /\ ~Has(active_connections, x)) =>
            /\ pushResult' = "False"
            /\ pushSends' = 0
            /\ spc' # "sending"
            /\ active_connections' = active_connections
            /\ wsOpen' = wsOpen
      ]_vars

\* C4 witness: a push found no entry (the identifier was snapshotted and its
\* entry removed before its turn) and returned false without a send.
C4_Witness ==
    /\ pushId # NoId
    /\ pushCount[pushId] = 1
    /\ pushWs = NoConn
    /\ pushSends = 0
    /\ pushResult = "False"

\* C5: once a connection handler has terminated, the registry does not map its
\* identifier to its connection, and a handler that ended in an unhandled fault
\* has had close(1011) called on its connection.
C5_TerminatedNotRegistered ==
    \A c \in Conns :
        pc[c] = "done" =>
            /\ Get(active_connections, ext[c]) # c
            /\ fault[c] => InternalError \in closeCalls[c]

\* C6: when a scan is over, every identifier that comes after one whose
\* processing raised has been matched, and dispatched if it had alerts.
C6_ScanFailureIsolated ==
    spc = "returning" =>
        \A i, j \in 1..Len(online_users) :
            (i < j /\ outcome[online_users[i]] = "raise") =>
                /\ matchCount[online_users[j]] = 1
                /\ outcome[online_users[j]] = "alerts" => pushCount[online_users[j]] = 1

\* A step in which handler d reads or writes the registry: the handshake's
\* lookup and insert, and the cleanup.
HandlerAccess(d) ==
    \/ pc[d] = "accepted" /\ Steps(d) /\ ext[d] \in Users
    \/ pc[d] = "closing_prior" /\ Steps(d)
    \/ pc[d] = "receiving" /\ pc'[d] = "done"

\* A step in which the scan reads or writes the registry: the snapshot, the
\* push's lookup and the push's eviction.
ScanAccess ==
    \/ spc = "idle" /\ scans' # scans
    \/ spc = "loop" /\ pushCount' # pushCount
    \/ spc = "sending" /\ pushResult' = "False"

\* C7: registry operations are mutually exclusive: while a handshake is between
\* its lookup and its insert, and while a push is between its lookup and its
\* return, no other handler and no scan step accesses the registry.
C7_RegistryOpsExclusive ==
    [][/\ \A c \in Conns :
            (pc[c] = "closing_prior" /\ ~Steps(c)) =>
               /\ ~ScanAccess
               /\ \A d \in Conns \ {c} : ~HandlerAccess(d)
       /\ (spc = "sending" /\ spc' = "sending") =>
               \A d \in Conns : ~HandlerAccess(d)
      ]_vars

\* C8: when a scan is over, every snapshotted identifier has been matched
\* exactly once and pushed to at most once (not at all when it had no alerts),
\* and no other identifier has been matched or pushed to.
C8_ScanSnapshot ==
    spc = "returning" =>
        /\ \A i \in 1..Len(online_users) :
              /\ matchCount[online_users[i]] = 1
              /\ pushCount[online_users[i]] <= 1
              /\ outcome[online_users[i]] = "empty" => pushCount[online_users[i]] = 0
        /\ \A x \in ExtIds :
              (\A i \in 1..Len(online_users) : online_users[i] # x) =>
                  (matchCount[x] = 0 /\ pushCount[x] = 0)

\* ---- notice store (specification SpecStore) ----

\* No two rows share a url other than the absent one.
UrlsUnique(rows) ==
    \A i, j \in 1..Len(rows) :
        (i # j /\ rows[i].url # NoUrl) => rows[i].url # rows[j].url

C10_ClearNeverObservedEmpty ==
    (clear_existing /\ notices_before # <<>> /\ incoming > 0) => reader_saw # "empty"

\* C11: when a save has failed (its exception re-raised to the caller), the
\* committed rows of the table are the rows that were committed when the save
\* was called.
C11_SaveFailureRestores ==
    spc_save = "raised" => notices = notices_before

\* ---- scrape and update (specification SpecUpdate) ----

\* C12: update never raises: it ends with the success result, carrying the
\* number of scraped records and the save's count, when the scrape and the
\* save both returned, and with the error result when either raised; from the
\* call of an update whose scrape raises until its return, no step invokes
\* save or changes the table.
C12_UpdateNeverRaises ==
    /\ [](/\ update_call.upd_result \in {"none", "success", "error"}
          /\ update_call.upc = "done" => update_call.upd_result \in {"success", "error"}
          /\ (update_call.upc = "done" /\ scrape_call.cpc = "raised") =>
                (update_call.upd_result = "error" /\ spc_save = "idle" /\ session_new = <<>>)
          /\ (update_call.upc = "done" /\ update_call.upd_result = "success") =>
                (/\ scrape_call.cpc = "returned"
                 /\ update_call.scraped_count = scrape_call.all_notices))
    /\ [][/\ (update_call.upc = "saving" /\ update_call'.upc = "done") =>
                IF spc_save = "returned"
                THEN /\ update_call'.upd_result = "success"
                     /\ update_call'.upd_saved = saved_count
                ELSE update_call'.upd_result = "error"
           /\ (\/ update_call.upc = "scraping" /\ update_call'.upc # "saving"
               \/ update_call.upc = "done" /\ scrape_call.cpc = "raised") =>
                UNCHANGED storeVars
         ]_vars

\* C12 witness: an update with clear_existing = true whose crawl raised after
\* collecting a record has returned the error result; the table still holds
\* rows.
C12_Witness ==
    /\ update_call.upc = "done"
    /\ update_call.upd_result = "error"
    /\ scrape_call.cpc = "raised"
    /\ update_call.upd_clear
    /\ scrape_call.all_notices > 0
    /\ notices # <<>>

\* The number of pages a crawl is to request: the page count found on the
\* initial page, capped by the limit when one is given.
PagesToRequest ==
    IF scrape_call.max_pages = NoLimit
    THEN PageCount(scrape_call.page_numbers)
    ELSE IF scrape_call.max_pages < PageCount(scrape_call.page_numbers)
         THEN scrape_call.max_pages
         ELSE PageCount(scrape_call.page_numbers)

\* C20: the i-th request of a crawl is for page i and carries the form state of
\* the page returned last before it; a crawl never requests more pages than
\* the page count of the initial page capped by the given limit, and has
\* requested exactly that many when it returns; a crawl that raised hands no
\* records to its caller (no save is started, no scraped count reported).
C20_CrawlPagesInOrder ==
    /\ \A i \in 1..Len(scrape_call.requests) :
          /\ scrape_call.requests[i].page = i
          /\ scrape_call.requests[i].form = i - 1
    /\ (update_call.upc = "scraping" /\ scrape_call.cpc \in {"loop", "returned"}) =>
          Len(scrape_call.requests) <= PagesToRequest
    /\ (update_call.upc = "scraping" /\ scrape_call.cpc = "returned") =>
          Len(scrape_call.requests) = PagesToRequest
    /\ scrape_call.cpc = "raised" =>
          /\ update_call.upc \in {"scraping", "done"}
          /\ spc_save = "idle"
          /\ update_call.scraped_count = 0

\* ---- date normalizer (specification SpecDates) ----

\* The sides of an input: the text before and after the first "-", or the
\* whole text when there is none.
SidesOf(str) ==
    IF Contains(str, "-")
    THEN <<Strip(SubSeq(str, 1, FirstIndex(str, "-") - 1)),
           Strip(SubSeq(str, FirstIndex(str, "-") + 1, Len(str)))>>
    ELSE <<Strip(str)>>

\* A side with the wrong field count, a non-numeric field or an invalid day.
SideMalformed(t) ==
    LET parts == Split(t, "/")
    IN  \/ Len(parts) # 3
        \/ \E i \in 1..3 : ~ParseInt(parts[i]).ok
        \/ /\ ParseInt(parts[2]).val \in 1..12
           /\ ParseInt(parts[3]).val \notin
                 1..DaysInMonth(ParseInt(parts[1]).val + 1911, ParseInt(parts[2]).val)

\* C15: for an input that is empty, whitespace only, or has at least one
\* malformed side, the normalizer returns (null, null).
C15_MalformedGivesNullPair ==
    (/\ date_call.dpc = "returned"
     /\ \/ Strip(date_call.date_range_str) = <<>>
        \/ \E i \in 1..Len(SidesOf(date_call.date_range_str)) :
               SideMalformed(SidesOf(date_call.date_range_str)[i]))
        => (date_call.start_date = NoDate /\ date_call.end_date = NoDate)

\* start <= end as dates
DateLeq(a, b) ==
    \/ a.y < b.y
    \/ a.y = b.y /\ a.m < b.m
    \/ a.y = b.y /\ a.m = b.m /\ a.d <= b.d

\* C16: for a range input of which both sides parse, the returned start date
\* is not after the returned end date.
C16_StartNotAfterEnd ==
    (/\ date_call.dpc = "returned"
     /\ Contains(date_call.date_range_str, "-")
     /\ date_call.start_date # NoDate
     /\ date_call.end_date # NoDate)
        => DateLeq(date_call.start_date, date_call.end_date)

\* ---- favorite geometry extractor (specification SpecCoords) ----

\* A coordinate object carries both a latitude value and a longitude value.
CarriesPoint(coords) ==
    /\ coords.kind = "dict"
    /\ coords.lat \notin {AbsentKey, NullCoord}
    /\ coords.lon \notin {AbsentKey, NullCoord}

\* C19: for a place or a road the extractor returns the favorite's own point
\* when lat and lon are both present and nothing otherwise; for a route it
\* returns the start point then the end point, each exactly when its
\* coordinate object carries a latitude value and a longitude value; no
\* returned point has a null coordinate.
C19_ExtractorPoints ==
    coords_call.gpc = "returned" =>
        /\ coords_call.favorite.type \in {"place", "road"} =>
              coords_call.coordinates =
                 IF coords_call.favorite.lat # NullCoord
                       /\ coords_call.favorite.lon # NullCoord
                 THEN <<[lat |-> coords_call.favorite.lat,
                         lon |-> coords_call.favorite.lon]>>
                 ELSE <<>>
        /\ coords_call.favorite.type = "route" =>
              coords_call.coordinates =
                 (IF CarriesPoint(coords_call.favorite.route_start_coords)
                  THEN <<[lat |-> coords_call.favorite.route_start_coords.lat,
                          lon |-> coords_call.favorite.route_start_coords.lon]>>
                  ELSE <<>>)
                 \o (IF CarriesPoint(coords_call.favorite.route_end_coords)
                     THEN <<[lat |-> coords_call.favorite.route_end_coords.lat,
                             lon |-> coords_call.favorite.route_end_coords.lon]>>
                     ELSE <<>>)
        /\ \A i \in 1..Len(coords_call.coordinates) :
              /\ coords_call.coordinates[i].lat # NullCoord
              /\ coords_call.coordinates[i].lon # NullCoord

\* ---- proximity matcher (specification SpecMatch) ----

\* C13: the list a check returns holds no two alerts with the same
\* (favorite_id, construction_id) pair.
C13_OneAlertPerPair ==
    match_call.mpc = "returned" =>
        \A i, j \in 1..Len(match_call.alerts) :
            (/\ match_call.alerts[i].favorite_id = match_call.alerts[j].favorite_id
             /\ match_call.alerts[i].construction_id
                   = match_call.alerts[j].construction_id) => i = j

\* C13 witness: a check has returned an alert for a route favorite whose start
\* point and end point are both within its threshold of the alert's notice.
C13_Witness ==
    /\ match_call.mpc = "returned"
    /\ \E i \in 1..Len(match_call.alerts), k \in 1..Len(match_call.favorite_rows),
             l \in 1..Len(match_call.notice_rows) :
          /\ match_call.favorite_rows[k].id = match_call.alerts[i].favorite_id
          /\ match_call.notice_rows[l].id = match_call.alerts[i].construction_id
          /\ match_call.favorite_rows[k].type = "route"
          /\ Len(get_favorite_coordinates(match_call.favorite_rows[k])) = 2
          /\ \A q \in 1..2 :
                WithinMeters(get_favorite_coordinates(match_call.favorite_rows[k])[q].lat,
                             get_favorite_coordinates(match_call.favorite_rows[k])[q].lon,
                             match_call.notice_rows[l].geometry.coordinates[2],
                             match_call.notice_rows[l].geometry.coordinates[1],
                             ThresholdOf(match_call.favorite_rows[k]))

\* The pair (favorite f, notice n) is one the matcher is to report: f is an
\* enabled favorite of the user with an extracted point, n is active and has a
\* Point geometry, and some extracted point of f lies within f's threshold
\* (100 when unset or zero) of n's point.
IsMatch(f, n) ==
    /\ f.user_id = match_call.user_id
    /\ f.notification_enabled
    /\ get_favorite_coordinates(f) # <<>>
    /\ n.start_date # NullDay /\ n.end_date # NullDay
    /\ n.start_date <= Today /\ Today <= n.end_date
    /\ n.geometry.kind = "Point" /\ Len(n.geometry.coordinates) >= 2
    /\ \E q \in 1..Len(get_favorite_coordinates(f)) :
          /\ get_favorite_coordinates(f)[q].lat # NullCoord
          /\ get_favorite_coordinates(f)[q].lon # NullCoord
          /\ WithinMeters(get_favorite_coordinates(f)[q].lat,
                          get_favorite_coordinates(f)[q].lon,
                          n.geometry.coordinates[2], n.geometry.coordinates[1],
                          IF f.distance_threshold \in {NoThreshold, 0}
                          THEN 100 ELSE f.distance_threshold)

\* C14: once a check is over, it has returned an alert for a pair (favorite,
\* notice) exactly when the pair is one the matcher is to report.
C14_AlertIffMatch ==
    match_call.mpc \in {"returned", "raised"} =>
        \A k \in 1..Len(match_call.favorite_rows), l \in 1..Len(match_call.notice_rows) :
            (\E i \in 1..Len(match_call.alerts) :
                /\ match_call.alerts[i].favorite_id = match_call.favorite_rows[k].id
                /\ match_call.alerts[i].construction_id = match_call.notice_rows[l].id)
              <=> IsMatch(match_call.favorite_rows[k], match_call.notice_rows[l])

\* ---- notice store, continued (specification SpecStore) ----

\* An incoming notice matches a stored row: by url, or by name when the
\* notice has no url.
MatchesRow(n, row) ==
    IF n.url # NoUrl THEN row.url = n.url ELSE row.name = n.name

\* C18: when a save with clear_existing = false returns, the rows that were
\* there before the call are unchanged and in place, and no row has been added
\* for a notice that matches one of them.
C18_ExistingRowsUntouched ==
    (spc_save = "returned" /\ ~clear_existing) =>
        /\ Len(notices) >= Len(notices_before)
        /\ SubSeq(notices, 1, Len(notices_before)) = notices_before
        /\ \A i \in (Len(notices_before) + 1)..Len(notices), j \in 1..Len(notices_before) :
              ~MatchesRow(notices[i], notices[j])

\* ---- receive loop (specification SpecFrames) ----

\* C17: a registered connection's handler that has read a ping and is back in
\* its receive loop has made exactly one pong send, and none before the send
\* completes; a registered connection's handler that reads a frame which is
\* not a ping makes no send for it, stays in its receive loop and leaves the
\* registry as it is.
C17_FrameEffects ==
    /\ [](\A c \in Conns :
            (data[c] = "ping" /\ Get(active_connections, ext[c]) = c) =>
               /\ pc[c] = "ponging" => replies[c] = 0
               /\ pc[c] = "receiving" => replies[c] = 1)
    /\ [][\A c \in Conns :
            (/\ pc[c] = "receiving"
             /\ Get(active_connections, ext[c]) = c
             /\ <<data[c], replies[c], pc[c]>>' # <<data[c], replies[c], pc[c]>>
             /\ data'[c] \notin {"none", "ping"}) =>
               /\ pc'[c] = "receiving"
               /\ replies'[c] = 0
               /\ active_connections' = active_connections
         ]_vars

\* ---- connection handler, continued (specification Spec) ----

\* A connection of identifier x has completed its handshake and is open.
Live(x) ==
    \E c \in Conns : ext[c] = x /\ pc[c] \in {"receiving", "ponging"} /\ wsOpen[c]

\* C21: pushes are attempted only by a running scan, and an identifier whose
\* push failed in one scan and which holds an open connection with a completed
\* handshake when the next scan starts is in that scan's snapshot of the
\* identifiers to evaluate.
C21_FailedPushEvaluatedNextCycle ==
    [][/\ (\/ \E x \in ExtIds : pushCount'[x] > pushCount[x]
           \/ pushSends' > pushSends) => spc = "loop"
       /\ scans' = scans + 1 =>
             \A x \in failed_ids :
                 Live(x) => \E i \in 1..Len(online_users') : online_users'[i] = x
     ]_vars

\* C24: no terminated handler leaves the database session it opened open.
C24_SessionClosedOnExit ==
    \A c \in Conns : pc[c] = "done" => db[c] = "closed"

\* C22: a push whose send fails on a connection that is no longer the registry
\* entry of its identifier leaves the registry as it is.
C22_FailedPushEvictsOwnEntryOnly ==
    [][(/\ spc = "sending"
        /\ pushResult' = "False"
        /\ Get(active_connections, pushId) # pushWs) =>
            active_connections' = active_connections
     ]_vars

\* C23: every connection that has completed its handshake and whose transport
\* is open is the registry entry of its identifier.
C23_OpenConnectionIsRegistered ==
    \A c \in Handshakes :
        (pc[c] \in {"receiving", "ponging"} /\ wsOpen[c]) =>
            Get(active_connections, ext[c]) = c

====
